---- MODULE Spec2Model ----
(***************************************************************************)
(* fast_remove_redundant_facets of                                         *)
(* src/dingo/backup/redundant_facet_removal_backup.py as a state machine.  *)
(*                                                                         *)
(* Reals are integers counted in units of redundant_facet_tol / 2, so      *)
(* redundant_facet_tol = 2, tol = 20 and 1.0 = 20000000.  Coordinates are  *)
(* 1..n (the source's 0..n-1 shifted by one).  The LP engine (gurobi) and  *)
(* fast_fba are oracles: either any answer from a small set, or the exact  *)
(* optimum of the LP the run has built in model_iter.                      *)
(***************************************************************************)
EXTENDS Integers, Sequences, FiniteSets, TLC

\* ---------------------------------------------------------------- bounds
MaxN == 2

\* ------------------------------------------------------ program constants
RedundantFacetTol == 2
Tol == 10 * RedundantFacetTol
One == 10000000 * RedundantFacetTol
Ten == 10 * One
\* sys.float_info.max, the +/- infinity sentinel written into lb and ub
FloatMax == 1000000000
\* a coordinate value beyond every finite datum: the LP is unbounded there
FarOut == FloatMax \div 2

VARIABLES
    pc, exact, n, S, c, opt_percentage, lb, ub, b, val,
    mlb, mub,
    indices, indices_iter, pos, removed, offset,
    facet_left_removed, facet_right_removed,
    redundant_facet_right, redundant_facet_left,
    max_objective, max_objective2, min_objective, min_objective2,
    Aeq_res, beq_res, A_res, b_res, result,
    passes, solved, postErr, fbaCalls, gone, folded, nonopt, errored,
    prev_indices, lastcmp, lb_entry, ub_entry, sums, lastlp

vars == << pc, exact, n, S, c, opt_percentage, lb, ub, b, val,
           mlb, mub,
           indices, indices_iter, pos, removed, offset,
           facet_left_removed, facet_right_removed,
           redundant_facet_right, redundant_facet_left,
           max_objective, max_objective2, min_objective, min_objective2,
           Aeq_res, beq_res, A_res, b_res, result,
           passes, solved, postErr, fbaCalls, gone, folded, nonopt, errored,
           prev_indices, lastcmp, lb_entry, ub_entry, sums, lastlp >>

\* ---------------------------------------------------------------- helpers
Abs(x) == IF x < 0 THEN -x ELSE x

\* mutant: max in place of min at line 252
Min2Max(x, y) == IF x >= y THEN x ELSE y

Min2(x, y) == IF x <= y THEN x ELSE y

Range(s) == { s[k] : k \in 1..Len(s) }

UnitVec(k, i) == [j \in 1..k |-> IF j = i THEN 1 ELSE 0]

ZeroVec(k) == [j \in 1..k |-> 0]

Neg(v) == [j \in 1..Len(v) |-> -v[j]]

RECURSIVE DotUpTo(_, _, _)
DotUpTo(u, v, k) == IF k = 0 THEN 0 ELSE DotUpTo(u, v, k - 1) + u[k] * v[k]

Dot(u, v) == DotUpTo(u, v, Len(u))

\* A = [I ; -I], rows 1..n are e_i and rows n+1..2n are -e_i
ARow(k, r) == IF r <= k THEN UnitVec(k, r) ELSE Neg(UnitVec(k, r - k))

\* mutant: the lower bounds are not negated
BVecNoNeg(u, l) == u \o l

\* b = concatenate((ub, -lb)), a copy taken before lb and ub are mutated
BVec(u, l) == u \o Neg(l)


\* ------------------------------------------------------------- LP oracle
\* gurobi treats a bound of magnitude 1e20 or more as infinite
IsPosInf(v) == v >= FloatMax

IsNegInf(v) == v <= -FloatMax

\* The coordinate values at which a vertex of the LP can lie: every finite
\* bound, the biomass threshold, 0, and one value beyond all of them each way.
Cand(l, u, v) ==
    { l[j] : j \in { k \in 1..Len(l) : ~IsNegInf(l[k]) /\ ~IsPosInf(l[k]) } }
    \cup { u[j] : j \in { k \in 1..Len(u) : ~IsNegInf(u[k]) /\ ~IsPosInf(u[k]) } }
    \cup { -v, 0, FarOut, -FarOut }

\* x satisfies the model: l <= x <= u, Srows x = 0, -cvec.x <= v
Feasible(x, l, u, Srows, cvec, v) ==
    /\ \A j \in 1..Len(l) :
          /\ IsNegInf(l[j]) \/ x[j] >= l[j]
          /\ IsPosInf(u[j]) \/ x[j] <= u[j]
    /\ \A r \in 1..Len(Srows) : Dot(Srows[r], x) = 0
    /\ -Dot(cvec, x) <= v

\* minimise obj.x over the model (GRB.MINIMIZE, lines 55 and 74-81)
ExactLP(obj, l, u, Srows, cvec, v) ==
    LET pts  == { x \in [1..Len(l) -> Cand(l, u, v)] :
                      Feasible(x, l, u, Srows, cvec, v) }
        vals == { Dot(obj, x) : x \in pts }
        best == CHOOSE w \in vals : \A w2 \in vals : w <= w2
    IN  IF pts = {} THEN [status |-> "INFEASIBLE", objVal |-> 0]
        ELSE IF best <= -FarOut THEN [status |-> "UNBOUNDED", objVal |-> 0]
        ELSE [status |-> "OPTIMAL", objVal |-> best]

\* objective values an arbitrary LP engine may report: with the input bounds
\* 1 and 2 as fallback values they give differences below, at and above
\* redundant_facet_tol on either side
OracleVals == {0, 3}

AnyAnswers ==
    { [status |-> "OPTIMAL", objVal |-> w] : w \in OracleVals }
    \cup { [status |-> "INFEASIBLE", objVal |-> 0] }

\* model.optimize() on a model whose variable bounds are l and u; its
\* constraints are the ones added at lines 135-137: S x = 0 and -c.x <= val
Optimize(obj, l, u) ==
    IF exact THEN { ExactLP(obj, l, u, S, c, val) } ELSE AnyAnswers

\* fast_fba(lb, ub, S, c): maximise c.x over lb <= x <= ub, S x = 0
FbaVals == {25}

fast_fba ==
    IF exact THEN { ExactLP(Neg(c), lb, ub, S, ZeroVec(n), 0) }
    ELSE { [status |-> "OPTIMAL", objVal |-> -w] : w \in FbaVals }


\* ----------------------------------------------------------------- inputs
\* S: no rows, or the single row x_1 - x_2 = 0
SChoices(k) ==
    {<< >>} \cup
    (IF k >= 2
     THEN { << [j \in 1..k |-> IF j = 1 THEN 1 ELSE IF j = 2 THEN -1 ELSE 0] >> }
     ELSE {})

Vecs(D) == UNION { [1..k -> D] : k \in 1..MaxN }

\* the pass counter stops counting one past the largest count a run reaches
PassCap == 2 * MaxN + 2

\* the totals of removed and offset stop counting one past 2 * MaxN
SumCap == 2 * MaxN + 1

\* no comparison of objective values was made by the last step
NoCompare == [side |-> "none", base |-> 0, other |-> 0]

\* no LP has been handed to the engine for the coordinate at hand
NoLP == [kind |-> "none", obj |-> << >>, l |-> << >>, u |-> << >>]

InitWith(ex, LbVals, UbVals, CVecs, Pcts) ==
    /\ pc = "validate"
    /\ exact = ex
    /\ n \in 1..MaxN
    /\ S \in SChoices(n)
    /\ lb \in Vecs(LbVals)
    /\ ub \in Vecs(UbVals)
    /\ c \in CVecs
    /\ opt_percentage \in Pcts
    /\ b = << >>
    /\ val = 0
    /\ mlb = << >>
    /\ mub = << >>
    /\ indices = << >>
    /\ indices_iter = << >>
    /\ pos = 0
    /\ removed = 0
    /\ offset = 0
    /\ facet_left_removed = << >>
    /\ facet_right_removed = << >>
    /\ redundant_facet_right = TRUE
    /\ redundant_facet_left = TRUE
    /\ max_objective = 0
    /\ max_objective2 = 0
    /\ min_objective = 0
    /\ min_objective2 = 0
    /\ Aeq_res = << >>
    /\ beq_res = << >>
    /\ A_res = << >>
    /\ b_res = << >>
    /\ result = [kind |-> "unset"]
    /\ passes = 0
    /\ solved = FALSE
    /\ postErr = 0
    /\ fbaCalls = 0
    /\ gone = {}
    /\ folded = {}
    /\ nonopt = [right |-> FALSE, left |-> FALSE]
    /\ errored = FALSE
    /\ prev_indices = << >>
    /\ lastcmp = NoCompare
    /\ lb_entry = lb
    /\ ub_entry = ub
    /\ sums = [removed |-> 0, offset |-> 0]
    /\ lastlp = NoLP

\* any-answer oracle: lb = 1 and ub = 2 everywhere, c = e_1 of any length
Init ==
    InitWith(FALSE, {1}, {2}, { UnitVec(k, 1) : k \in 1..MaxN }, {100})

\* exact oracle: bounds from {-10.0, 0, 10.0}, c = 0 or a unit vector
InitExact ==
    InitWith(TRUE, {-Ten, 0}, {0, Ten},
             UNION { { ZeroVec(k) } \cup { UnitVec(k, i) : i \in 1..k } : k \in 1..MaxN },
             {100, 50})


\* ------------------------------------------------- the code's decisions
\* line 86: the only dimension check; c is not looked at
DimsMismatch(nlb, nub, ncols) == nlb # ncols \/ nub # ncols

\* mutant: the sign of the threshold is lost
BiomassCutNoSign(mb, pct) == (mb \div Tol) * ((Tol * pct) \div 100)

\* line 108: val = -floor(max_biomass_objective / tol) * tol * opt_percentage / 100
BiomassCut(mb, pct) == -((mb \div Tol) * ((Tol * pct) \div 100))

\* mutant: >= in place of > in the loop test
LoopContinuesAlways(r, o) == r >= 0 \/ o > 0

\* line 148
LoopContinues(r, o) == r > 0 \/ o > 0

\* lines 174-178: the maximum of x_i, or ub[i] when the solve is not optimal
FallbackMax(ans, ubi) == IF ans.status = "OPTIMAL" THEN -ans.objVal ELSE ubi

\* lines 210-214: the minimum of x_i, or lb[i] when the solve is not optimal
FallbackMin(ans, lbi) == IF ans.status = "OPTIMAL" THEN ans.objVal ELSE lbi

\* mutant: >= in place of > in the tolerance test
ExceedsTolGe(x2, x1) == Abs(x2 - x1) >= RedundantFacetTol

\* lines 192-195 and 229-232
ExceedsTol(x2, x1) == Abs(x2 - x1) > RedundantFacetTol

\* mutant: removed is counted but the flag is never set
RightCompareNoFlag(flag, ans, maxobj) ==
    IF flag THEN [redundant |-> TRUE, inc |-> 0, flag |-> TRUE]
    ELSE IF ans.status = "OPTIMAL"
         THEN IF Abs(-ans.objVal - maxobj) > RedundantFacetTol
              THEN [redundant |-> FALSE, inc |-> 0, flag |-> FALSE]
              ELSE [redundant |-> TRUE, inc |-> 1, flag |-> FALSE]
         ELSE [redundant |-> TRUE, inc |-> 0, flag |-> FALSE]

\* lines 180-199 after the comparison solve: the local redundant_facet_right
\* (initialised True at line 162), the increment of removed, the new flag
RightCompare(flag, ans, maxobj) ==
    IF flag THEN [redundant |-> TRUE, inc |-> 0, flag |-> TRUE]
    ELSE IF ans.status = "OPTIMAL"
         THEN IF ExceedsTol(-ans.objVal, maxobj)
              THEN [redundant |-> FALSE, inc |-> 0, flag |-> FALSE]
              ELSE [redundant |-> TRUE, inc |-> 1, flag |-> TRUE]
         ELSE [redundant |-> TRUE, inc |-> 0, flag |-> FALSE]

\* mutant: the flag is set but removed is not counted
LeftCompareNoCount(flag, ans, minobj) ==
    IF flag THEN [redundant |-> TRUE, inc |-> 0, flag |-> TRUE]
    ELSE IF ans.status = "OPTIMAL"
         THEN IF Abs(ans.objVal - minobj) > RedundantFacetTol
              THEN [redundant |-> FALSE, inc |-> 0, flag |-> FALSE]
              ELSE [redundant |-> TRUE, inc |-> 0, flag |-> TRUE]
         ELSE [redundant |-> TRUE, inc |-> 0, flag |-> FALSE]

\* lines 216-236 after the comparison solve
LeftCompare(flag, ans, minobj) ==
    IF flag THEN [redundant |-> TRUE, inc |-> 0, flag |-> TRUE]
    ELSE IF ans.status = "OPTIMAL"
         THEN IF ExceedsTol(ans.objVal, minobj)
              THEN [redundant |-> FALSE, inc |-> 0, flag |-> FALSE]
              ELSE [redundant |-> TRUE, inc |-> 1, flag |-> TRUE]
         ELSE [redundant |-> TRUE, inc |-> 0, flag |-> FALSE]

\* mutant: the lower bound of the coordinate is relaxed by 1 as lb_iter is
LeftCmpLbRelaxed(l, i) == [l EXCEPT ![i] = @ - One]

\* lines 217-223: the lower bounds of the left comparison solve; lb_iter is
\* built but never given to the model, whose bounds stay as they are
LeftCmpLb(l, i) == l

\* lines 239-241: width = abs(max_objective - min_objective) < redundant_facet_tol
IsCollapsed(maxobj, minobj) == Abs(maxobj - minobj) < RedundantFacetTol

\* mutant: the row of the lower bound, A[n + i], is stacked
FoldedRowLower(k, i) == ARow(k, k + i)

\* lines 243-250: the row A[i] stacked under Aeq_res
FoldedRow(k, i) == ARow(k, i)

\* lines 254, 289, 291: the value written into ub[i]
UbFreed == FloatMax

\* mutant: the sign of the sentinel is lost
LbFreedPositive == FloatMax

\* lines 255, 273, 292: the value written into lb[i]
LbFreed == -FloatMax

\* line 238: the branch that keeps or folds the coordinate
SomeSideKept(rl, rr) == (~rl) \/ (~rr)

\* mutant: the handler returns what the passes so far have built
ExceptHandlerPartial == [pc |-> "returned", kind |-> "tuple"]

\* lines 300-303: the error is printed and the function falls off its end
ExceptHandler == [pc |-> "failed", kind |-> "None"]

\* mutant: every pass iterates over range(n) again
NextIndicesAll(iter, old) == [k \in 1..n |-> k]

\* lines 151-152: the coordinates the next pass iterates over
NextIndices(iter, old) == iter


\* ---------------------------------------------------------------- actions
\* what the run never writes: the arguments S, c, opt_percentage and the
\* values lb and ub had when the function was entered
inputs == << exact, n, S, c, opt_percentage, lb_entry, ub_entry >>

locals == << redundant_facet_right, redundant_facet_left,
             max_objective, max_objective2, min_objective, min_objective2 >>

reduced == << Aeq_res, beq_res, A_res, b_res >>

loopvars == << indices, indices_iter, pos, removed, offset >>

flags == << facet_left_removed, facet_right_removed >>

Bump(k, cap, inc) == IF k + inc < cap THEN k + inc ELSE cap

\* the coordinate the for loop is at
cur == indices[pos]

\* lines 86-105: the dimension check, then m, n, beq, Aeq_res, A and b
CheckDims ==
    /\ pc = "validate"
    /\ IF DimsMismatch(Len(lb), Len(ub), n)
       THEN /\ pc' = "rejected"
            /\ UNCHANGED << b, Aeq_res, beq_res >>
       ELSE /\ pc' = "fba"
            /\ b' = BVec(ub, lb)
            /\ Aeq_res' = S
            /\ beq_res' = [r \in 1..Len(S) |-> 0]
    /\ UNCHANGED << inputs, lb, ub, val, mlb, mub, loopvars, flags, locals,
                    A_res, b_res, result, passes, solved, postErr, fbaCalls, gone,
                    folded, nonopt, errored, prev_indices, lastcmp,
                    sums, lastlp >>

\* lines 107-112: fast_fba is called with c as given; with a c of the wrong
\* length it may raise or return anything, and it raises (None is unpacked)
\* when its LP has no optimum
CallFBA ==
    /\ pc = "fba"
    /\ fbaCalls' = fbaCalls + 1
    /\ IF Len(c) # n
       THEN /\ pc' \in {"raised", "build"}
            /\ val' = 0
       ELSE \E ans \in fast_fba :
               IF ans.status = "OPTIMAL"
               THEN /\ pc' = "build"
                    /\ val' = BiomassCut(-ans.objVal, opt_percentage)
               ELSE /\ pc' = "raised"
                    /\ val' = 0
    /\ UNCHANGED << inputs, lb, ub, b, mlb, mub, loopvars, flags, locals,
                    reduced, result, passes, solved, postErr, gone, folded, nonopt,
                    errored, prev_indices, lastcmp,
                    sums, lastlp >>

\* lines 114-146: the model (bounds lb, ub; S x = 0; -c.x <= val), its copy
\* model_iter, and the loop's initial state.  A c of the wrong length makes
\* addMConstr at line 137 fail.
BuildModel ==
    /\ pc = "build"
    /\ IF Len(c) # n
       THEN /\ pc' \in {"raised", ExceptHandler.pc}
            /\ result' = IF pc' = "raised" THEN result
                         ELSE [kind |-> ExceptHandler.kind]
            /\ UNCHANGED << mlb, mub, loopvars, flags >>
       ELSE /\ pc' = "while"
            /\ mlb' = lb
            /\ mub' = ub
            /\ indices_iter' = [k \in 1..n |-> k]
            /\ indices' = << >>
            /\ pos' = 0
            /\ removed' = 1
            /\ offset' = 1
            /\ facet_left_removed' = [k \in 1..n |-> FALSE]
            /\ facet_right_removed' = [k \in 1..n |-> FALSE]
            /\ UNCHANGED result
    /\ UNCHANGED << inputs, lb, ub, b, val, locals, reduced, passes, solved, postErr,
                    fbaCalls, gone, folded, nonopt, errored, prev_indices, lastcmp,
                    sums, lastlp >>

\* lines 148-158: the loop test holds; the pass resets its accumulators
PassStart ==
    /\ pc = "while"
    /\ LoopContinues(removed, offset)
    /\ pc' = "for"
    /\ removed' = 0
    /\ offset' = 0
    /\ indices' = NextIndices(indices_iter, indices)
    /\ indices_iter' = << >>
    /\ pos' = 0
    /\ A_res' = << >>
    /\ b_res' = << >>
    /\ passes' = Bump(passes, PassCap, 1)
    /\ prev_indices' = indices
    /\ UNCHANGED << inputs, lb, ub, b, val, mlb, mub, flags, locals, Aeq_res,
                    beq_res, result, solved, postErr, fbaCalls, gone, folded, nonopt,
                    errored, lastcmp,
                    sums, lastlp >>

\* lines 148, 294-298: the loop test fails; the four arrays are returned
Return ==
    /\ pc = "while"
    /\ ~LoopContinues(removed, offset)
    /\ pc' = "returned"
    /\ result' = [kind |-> "tuple"]
    /\ UNCHANGED << inputs, lb, ub, b, val, mlb, mub, loopvars, flags, locals,
                    reduced, passes, solved, postErr, fbaCalls, gone, folded, nonopt,
                    errored, prev_indices, lastcmp,
                    sums, lastlp >>

\* lines 159-163: the next coordinate of the pass, or the end of the pass.
\* The solve results of the previous coordinate are dead here and are
\* cleared; redundant_facet_right/left are set True by the code itself.
ForNext ==
    /\ pc = "for"
    /\ pos' = pos + 1
    /\ pc' = IF pos + 1 <= Len(indices) THEN "max_base" ELSE "while"
    /\ redundant_facet_right' = TRUE
    /\ redundant_facet_left' = TRUE
    /\ max_objective' = 0
    /\ max_objective2' = 0
    /\ min_objective' = 0
    /\ min_objective2' = 0
    /\ nonopt' = [right |-> FALSE, left |-> FALSE]
    /\ lastcmp' = NoCompare
    /\ lastlp' = NoLP
    /\ UNCHANGED << inputs, lb, ub, b, val, mlb, mub, indices, indices_iter,
                    removed, offset, flags, reduced, result, passes, solved, postErr,
                    fbaCalls, gone, folded, errored, prev_indices,
                    sums >>


\* the answer slot of a comparison solve that is skipped
NoSolve == [status |-> "NONE", objVal |-> 0]

\* lines 165-178: maximise x_i (minimise -e_i.x) on a copy of model_iter,
\* whose bounds are the ones the model was last given (mlb, mub)
SolveMaxBase ==
    /\ pc = "max_base"
    /\ \E ans \in Optimize(Neg(ARow(n, cur)), mlb, mub) :
          /\ max_objective' = FallbackMax(ans, ub[cur])
          /\ nonopt' = [nonopt EXCEPT
                          !.right = (ans.status # "OPTIMAL"
                                     /\ ~facet_right_removed[cur])]
    /\ lastlp' = [kind |-> "max_base", obj |-> Neg(ARow(n, cur)),
                  l |-> mlb, u |-> mub]
    /\ solved' = TRUE
    /\ postErr' = IF errored THEN 1 ELSE postErr
    /\ pc' = "max_cmp"
    /\ UNCHANGED << inputs, lb, ub, b, val, mlb, mub, loopvars, flags,
                    redundant_facet_right, redundant_facet_left,
                    max_objective2, min_objective, min_objective2, reduced,
                    result, passes, fbaCalls, gone, folded, errored,
                    prev_indices, lastcmp,
                    sums >>

\* lines 180-199: unless the right flag is set, ub_iter is built (and never
\* given to the model) and the copy of model_iter is solved with objective
\* e_i, still minimising and still under the bounds mlb, mub
SolveMaxCmp ==
    /\ pc = "max_cmp"
    /\ \E ans \in (IF facet_right_removed[cur] THEN { NoSolve }
                   ELSE Optimize(ARow(n, cur), mlb, mub)) :
          LET r == RightCompare(facet_right_removed[cur], ans, max_objective)
          IN  /\ redundant_facet_right' = r.redundant
              /\ removed' = removed + r.inc
              /\ sums' = [sums EXCEPT !.removed = Bump(@, SumCap, r.inc)]
              /\ facet_right_removed' =
                    [facet_right_removed EXCEPT ![cur] = r.flag]
              /\ max_objective2' =
                    IF ans.status = "OPTIMAL" THEN -ans.objVal ELSE max_objective2
              /\ nonopt' = [nonopt EXCEPT
                              !.right = @ \/ ans.status \notin {"OPTIMAL", "NONE"}]
              /\ lastcmp' =
                    IF ans.status = "OPTIMAL"
                    THEN [side |-> "right", base |-> max_objective,
                          other |-> -ans.objVal]
                    ELSE NoCompare
    /\ lastlp' = IF facet_right_removed[cur] THEN lastlp
                  ELSE [kind |-> "right_cmp", obj |-> ARow(n, cur),
                        l |-> mlb, u |-> mub]
    /\ solved' = (solved \/ ~facet_right_removed[cur])
    /\ postErr' = IF errored /\ ~facet_right_removed[cur] THEN 1 ELSE postErr
    /\ pc' = "min_base"
    /\ UNCHANGED << inputs, lb, ub, b, val, mlb, mub, indices, indices_iter,
                    pos, offset, facet_left_removed, redundant_facet_left,
                    max_objective, min_objective, min_objective2, reduced,
                    result, passes, fbaCalls, gone, folded, errored,
                    prev_indices >>

\* lines 201-214: the model's bounds are set to the current lb and ub, its
\* objective to e_i, and x_i is minimised
SolveMinBase ==
    /\ pc = "min_base"
    /\ mlb' = lb
    /\ mub' = ub
    /\ \E ans \in Optimize(ARow(n, cur), lb, ub) :
          /\ min_objective' = FallbackMin(ans, lb[cur])
          /\ nonopt' = [nonopt EXCEPT
                          !.left = (ans.status # "OPTIMAL"
                                    /\ ~facet_left_removed[cur])]
    /\ lastlp' = [kind |-> "min_base", obj |-> ARow(n, cur),
                  l |-> lb, u |-> ub]
    /\ solved' = TRUE
    /\ postErr' = IF errored THEN 1 ELSE postErr
    /\ pc' = "min_cmp"
    /\ UNCHANGED << inputs, lb, ub, b, val, loopvars, flags,
                    redundant_facet_right, redundant_facet_left,
                    max_objective, max_objective2, min_objective2, reduced,
                    result, passes, fbaCalls, gone, folded, errored,
                    prev_indices, lastcmp,
                    sums >>

\* lines 216-236: unless the left flag is set, lb_iter is built and the copy
\* of model_iter is solved again with the same objective e_i
SolveMinCmp ==
    /\ pc = "min_cmp"
    /\ \E ans \in (IF facet_left_removed[cur] THEN { NoSolve }
                   ELSE Optimize(ARow(n, cur), LeftCmpLb(mlb, cur), mub)) :
          LET r == LeftCompare(facet_left_removed[cur], ans, min_objective)
          IN  /\ redundant_facet_left' = r.redundant
              /\ removed' = removed + r.inc
              /\ sums' = [sums EXCEPT !.removed = Bump(@, SumCap, r.inc)]
              /\ facet_left_removed' =
                    [facet_left_removed EXCEPT ![cur] = r.flag]
              /\ min_objective2' =
                    IF ans.status = "OPTIMAL" THEN ans.objVal ELSE min_objective2
              /\ nonopt' = [nonopt EXCEPT
                              !.left = @ \/ ans.status \notin {"OPTIMAL", "NONE"}]
              /\ lastcmp' =
                    IF ans.status = "OPTIMAL"
                    THEN [side |-> "left", base |-> min_objective,
                          other |-> ans.objVal]
                    ELSE NoCompare
    /\ lastlp' = IF facet_left_removed[cur] THEN lastlp
                  ELSE [kind |-> "left_cmp", obj |-> ARow(n, cur),
                        l |-> LeftCmpLb(mlb, cur), u |-> mub]
    /\ solved' = (solved \/ ~facet_left_removed[cur])
    /\ postErr' = IF errored /\ ~facet_left_removed[cur] THEN 1 ELSE postErr
    /\ pc' = "classify"
    /\ UNCHANGED << inputs, lb, ub, b, val, mlb, mub, indices, indices_iter,
                    pos, offset, facet_right_removed, redundant_facet_right,
                    max_objective, max_objective2, min_objective, reduced,
                    result, passes, fbaCalls, gone, folded, errored,
                    prev_indices >>

\* lines 238-292: fold the coordinate into an equality, keep it with the
\* rows of its non-redundant sides, or drop it
Classify ==
    /\ pc = "classify"
    /\ IF SomeSideKept(redundant_facet_left, redundant_facet_right)
       THEN IF IsCollapsed(max_objective, min_objective)
            THEN /\ offset' = offset + 1
                 /\ sums' = [sums EXCEPT !.offset = Bump(@, SumCap, 1)]
                 /\ Aeq_res' = Append(Aeq_res, FoldedRow(n, cur))
                 /\ beq_res' = Append(beq_res, Min2(max_objective, min_objective))
                 /\ ub' = [ub EXCEPT ![cur] = UbFreed]
                 /\ lb' = [lb EXCEPT ![cur] = LbFreed]
                 /\ folded' = folded \cup {cur}
                 /\ gone' = gone \cup {cur}
                 /\ UNCHANGED << indices_iter, A_res, b_res >>
            ELSE /\ indices_iter' = Append(indices_iter, cur)
                 /\ A_res' =
                       A_res
                       \o (IF ~redundant_facet_left
                           THEN << ARow(n, n + cur) >> ELSE << >>)
                       \o (IF ~redundant_facet_right
                           THEN << ARow(n, cur) >> ELSE << >>)
                 /\ b_res' =
                       b_res
                       \o (IF ~redundant_facet_left THEN << b[n + cur] >> ELSE << >>)
                       \o (IF ~redundant_facet_right THEN << b[cur] >> ELSE << >>)
                 /\ lb' = IF ~redundant_facet_left THEN lb
                          ELSE [lb EXCEPT ![cur] = LbFreed]
                 /\ ub' = IF ~redundant_facet_right THEN ub
                          ELSE [ub EXCEPT ![cur] = UbFreed]
                 /\ UNCHANGED << offset, Aeq_res, beq_res, folded, gone, sums >>
       ELSE /\ ub' = [ub EXCEPT ![cur] = UbFreed]
            /\ lb' = [lb EXCEPT ![cur] = LbFreed]
            /\ gone' = gone \cup {cur}
            /\ UNCHANGED << offset, indices_iter, reduced, folded, sums >>
    /\ pc' = "for"
    /\ UNCHANGED << inputs, b, val, mlb, mub, indices, pos, removed, flags,
                    locals, result, passes, solved, postErr, fbaCalls, nonopt, errored,
                    prev_indices, lastcmp,
                    lastlp >>

\* a solve is about to run: the engine may raise instead of answering
Solving ==
    \/ pc \in {"max_base", "min_base"}
    \/ pc = "max_cmp" /\ ~facet_right_removed[cur]
    \/ pc = "min_cmp" /\ ~facet_left_removed[cur]

\* lines 114-119, 300-303: gp.GurobiError raised inside the try block, by
\* the environment or by a solve, is caught by the handler
SolverError ==
    /\ Solving \/ (pc = "build" /\ Len(c) = n)
    /\ pc' = ExceptHandler.pc
    /\ result' = [kind |-> ExceptHandler.kind]
    /\ errored' = TRUE
    /\ UNCHANGED << inputs, lb, ub, b, val, mlb, mub, loopvars, flags, locals,
                    reduced, passes, solved, postErr, fbaCalls, gone, folded, nonopt,
                    prev_indices, lastcmp,
                    sums, lastlp >>

Next ==
    \/ CheckDims
    \/ CallFBA
    \/ BuildModel
    \/ PassStart
    \/ Return
    \/ ForNext
    \/ SolveMaxBase
    \/ SolveMaxCmp
    \/ SolveMinBase
    \/ SolveMinCmp
    \/ Classify
    \/ SolverError

\* any LP engine and any fast_fba
Spec == Init /\ [][Next]_vars

\* the exact LP engine and the exact fast_fba
SpecExact == InitExact /\ [][Next]_vars

\* any LP engine, on inputs whose S has no rows (the rows of S play no part
\* in what an arbitrary engine answers)
InitFair == Init /\ S = << >>

\* the run is sequential code: every step that can be taken is taken
FairSpec == InitFair /\ [][Next]_vars /\ WF_vars(Next)


\* ================================================================= claims
\* the input bounds, read back from the copy b made at line 103
lb0(j) == -b[n + j]

ub0(j) == b[j]

InputOrdered == \A j \in 1..n : lb0(j) <= ub0(j)

\* points at which the two systems are compared
ProbeVals == { -Ten - One, -Ten, 0, Ten, Ten + One }

\* lb <= x <= ub, S x = 0 and the biomass cut, on the input as given
OrigHolds(x) ==
    /\ \A j \in 1..n : lb0(j) <= x[j] /\ x[j] <= ub0(j)
    /\ \A r \in 1..Len(S) : Dot(S[r], x) = 0
    /\ -Dot(c, x) <= val

\* A_res x <= b_res, Aeq_res x = beq_res and the biomass cut
ResHolds(x) ==
    /\ \A k \in 1..Len(A_res) : Dot(A_res[k], x) <= b_res[k]
    /\ \A r \in 1..Len(Aeq_res) : Dot(Aeq_res[r], x) = beq_res[r]
    /\ -Dot(c, x) <= val

\* C1: with the exact LP engine, whenever the function returns on an input
\* with lb <= ub, a point satisfies the original system iff it satisfies
\* the returned one.
C1_FeasibilityPreserved ==
    (pc = "returned" /\ InputOrdered)
        => \A x \in [1..n -> ProbeVals] : OrigHolds(x) <=> ResHolds(x)

\* C2: once the pass loop is entered it is eventually left, by the return
\* of the four arrays or, if the engine raised, by the failure report.
C2_Termination == (pc = "while") ~> (pc = "returned" \/ pc = "failed")

C2_Witness == pc = "returned" /\ passes >= 3 /\ ~errored

\* C3 as stated: the loop body runs at most n times.
C3_AtMostNPasses == passes <= n

\* C3 amended: the loop body runs at most 2n + 1 times.
C3_PassBound == passes <= 2 * n + 1

C3_Witness == pc = "returned" /\ passes = 2 * n + 1

\* the scenario: n = 2, S with no rows, c = [1, 0], lb = [0, 0],
\* ub = [10, 10], opt_percentage = 100, exact LP engine
Scenario ==
    /\ exact
    /\ n = 2
    /\ S = << >>
    /\ c = << 1, 0 >>
    /\ b = << Ten, Ten, 0, 0 >>
    /\ opt_percentage = 100

HasRow(row, rhs) == \E k \in 1..Len(A_res) : A_res[k] = row /\ b_res[k] = rhs

\* C4 as stated: the scenario returns the upper-bound row of the first
\* coordinate (e with b = 10) and no row of the second coordinate.
C4_ScenarioAsStated ==
    (Scenario /\ pc = "returned")
        => /\ HasRow(<< 1, 0 >>, Ten)
           /\ \A k \in 1..Len(A_res) : A_res[k] \notin { << 0, 1 >>, << 0, -1 >> }

\* C4 amended: the scenario folds the first coordinate into the equality
\* x = 10 with no row of it in A_res, and returns the upper-bound row of the
\* second coordinate (e with b = 10).
C4_Scenario ==
    (Scenario /\ pc = "returned")
        => /\ \A k \in 1..Len(A_res) : A_res[k] \notin { << 1, 0 >>, << -1, 0 >> }
           /\ \E r \in 1..Len(Aeq_res) : Aeq_res[r] = << 1, 0 >> /\ beq_res[r] = Ten
           /\ HasRow(<< 0, 1 >>, Ten)

C4_Witness == Scenario /\ pc = "returned"

\* C5: when lb, ub, c and the columns of S do not all have the same length,
\* the call is rejected before fast_fba or any solve is invoked.
C5_DimsRejectedFirst ==
    (Len(lb) # n \/ Len(ub) # n \/ Len(c) # n)
        => /\ pc \in {"validate", "rejected"}
           /\ fbaCalls = 0
           /\ solved = FALSE
    /\ postErr = 0

\* C6: after the engine raised, the run has ended in the reported failure,
\* no further solve has run, and the caller is handed None, not the arrays.
C6_SolverErrorFatal ==
    errored => pc = "failed" /\ result.kind = "None" /\ postErr = 0

C6_Witness == errored /\ passes >= 2 /\ Len(Aeq_res) > Len(S)

\* C7: a side under test whose solve came back not optimal is not treated
\* as redundant when the coordinate is classified.
C7_NonOptimalKeepsFacet ==
    pc = "classify"
        => /\ nonopt.right => ~redundant_facet_right
           /\ nonopt.left => ~redundant_facet_left

\* no row of a folded coordinate is in A_res
NoFoldedRow ==
    \A i \in folded : \A k \in 1..Len(A_res) :
        A_res[k] \notin { ARow(n, i), ARow(n, n + i) }

\* the step appends e_i with min(max_objective, min_objective) to the
\* equality system and leaves A_res alone
FoldsCur ==
    /\ Aeq_res' = Append(Aeq_res, UnitVec(n, cur))
    /\ beq_res' = Append(beq_res, IF max_objective <= min_objective
                                  THEN max_objective ELSE min_objective)
    /\ A_res' = A_res
    /\ b_res' = b_res

\* C8 as stated: every coordinate classified with width below the
\* tolerance is folded, and never has a row in A_res afterwards.
C8_EveryNarrowFolded ==
    /\ [][(pc = "classify"
           /\ Abs(max_objective - min_objective) < RedundantFacetTol)
          => FoldsCur]_vars
    /\ []NoFoldedRow

\* C8 amended: every coordinate classified with at least one side found
\* non-redundant and width below the tolerance is folded, and never has a
\* row in A_res afterwards.
C8_NarrowFolded ==
    /\ [][(pc = "classify"
           /\ (~redundant_facet_left \/ ~redundant_facet_right)
           /\ Abs(max_objective - min_objective) < RedundantFacetTol)
          => FoldsCur]_vars
    /\ []NoFoldedRow

C8_Witness ==
    /\ folded # {}
    /\ passes >= 2
    /\ A_res # << >>
    /\ Len(beq_res) > Len(S)
    /\ beq_res[Len(beq_res)] # 0

\* the side the last comparison was about is marked redundant
ComparedRedundant ==
    IF lastcmp.side = "right"
    THEN redundant_facet_right /\ facet_right_removed[cur]
    ELSE redundant_facet_left /\ facet_left_removed[cur]

ComparedKept ==
    IF lastcmp.side = "right"
    THEN ~redundant_facet_right /\ ~facet_right_removed[cur]
    ELSE ~redundant_facet_left /\ ~facet_left_removed[cur]

\* C9 as stated: values differing by exactly the tolerance make the side
\* non-redundant, values differing by less make it redundant.
C9_ExactlyTolKept ==
    lastcmp.side # "none"
        => /\ Abs(lastcmp.other - lastcmp.base) = RedundantFacetTol => ComparedKept
           /\ Abs(lastcmp.other - lastcmp.base) < RedundantFacetTol => ComparedRedundant

\* C9 amended: values differing by exactly the tolerance or by less make
\* the side redundant, values differing by more make it non-redundant.
C9_ToleranceBoundary ==
    lastcmp.side # "none"
        => /\ Abs(lastcmp.other - lastcmp.base) = RedundantFacetTol => ComparedRedundant
           /\ Abs(lastcmp.other - lastcmp.base) < RedundantFacetTol => ComparedRedundant
           /\ Abs(lastcmp.other - lastcmp.base) > RedundantFacetTol => ComparedKept

C9_Witness ==
    /\ lastcmp.side = "left"
    /\ Abs(lastcmp.other - lastcmp.base) = RedundantFacetTol
    /\ facet_left_removed[cur]

\* C10: each pass iterates over a subset of the coordinates of the pass
\* before, and a coordinate that has left the active set is not processed.
C10_MonotoneShrink ==
    /\ passes >= 2 => Range(indices) \subseteq Range(prev_indices)
    /\ pc \in {"max_base", "max_cmp", "min_base", "min_cmp", "classify"}
          => cur \notin gone

C10_Witness ==
    /\ passes >= 2
    /\ pc = "max_base"
    /\ gone # {}
    /\ Len(indices) < Len(prev_indices)

\* C11: when the call has returned or failed, the caller's lb and ub hold
\* the values they had on entry (S, c and opt_percentage are never written).
C11_ArgumentsUnchanged ==
    pc \in {"returned", "failed"} => lb = lb_entry /\ ub = ub_entry

\* the LP of the base solve of the side the last comparison solve was for
BaseOfLast ==
    IF lastlp.kind = "right_cmp"
    THEN [obj |-> Neg(ARow(n, cur)), l |-> mlb, u |-> mub]
    ELSE [obj |-> ARow(n, cur), l |-> mlb, u |-> mub]

\* C12: the LP of a comparison solve has the objective of its side's base
\* solve and the base solve's bounds with only ub[i] raised by 1 (right) or
\* only lb[i] lowered by 1 (left).
C12_ComparisonRelaxed ==
    /\ lastlp.kind = "right_cmp"
          => /\ lastlp.obj = BaseOfLast.obj
             /\ lastlp.l = BaseOfLast.l
             /\ lastlp.u = [BaseOfLast.u EXCEPT ![cur] = @ + One]
    /\ lastlp.kind = "left_cmp"
          => /\ lastlp.obj = BaseOfLast.obj
             /\ lastlp.l = [BaseOfLast.l EXCEPT ![cur] = @ - One]
             /\ lastlp.u = BaseOfLast.u

\* C13: every base solve runs under the bounds lb and ub as they are at the
\* moment of the solve.
C13_BaseSolveCurrentBounds ==
    (pc \in {"max_cmp", "min_cmp"} /\ lastlp.kind \in {"max_base", "min_base"})
        => lastlp.l = lb /\ lastlp.u = ub

\* the rows the equality system had when the pass at hand began
RowsAtPassStart == 1..(Len(Aeq_res) - offset)

\* C14: every point the LP of a solve admits satisfies every row of
\* (Aeq_res, beq_res) present when the pass began, so a coordinate folded in
\* an earlier pass still has its folded value.
C14_FoldedStayFixed ==
    (pc \in {"max_cmp", "min_base", "min_cmp", "classify"} /\ lastlp.kind # "none")
        => \A x \in [1..n -> Cand(lastlp.l, lastlp.u, val)] :
              Feasible(x, lastlp.l, lastlp.u, S, c, val)
                  => \A r \in RowsAtPassStart : Dot(Aeq_res[r], x) = beq_res[r]

\* C15: the loop is left only after a pass that changed nothing: the active
\* index set the final pass produced is the one it iterated over, and the
\* final pass dropped no coordinate and wrote no bound.
C15_ExitIsFixedPoint ==
    pc = "returned" => indices_iter = indices

\* the step appends one row e_i to Aeq_res and one entry to beq_res, and
\* counts it in offset
AppendsOneEquality ==
    /\ Len(Aeq_res') = Len(Aeq_res) + 1
    /\ SubSeq(Aeq_res', 1, Len(Aeq_res)) = Aeq_res
    /\ \E i \in 1..n : Aeq_res'[Len(Aeq_res')] = UnitVec(n, i)
    /\ Len(beq_res') = Len(beq_res) + 1
    /\ SubSeq(beq_res', 1, Len(beq_res)) = beq_res
    /\ offset' = offset + 1

\* C16: once Aeq_res and beq_res are set up, Aeq_res begins with the rows
\* of S and beq_res with as many zeros, the two have the same number of
\* rows, every step of the loop leaves them alone or appends one row e_i with
\* one beq_res entry and counts it in offset, and the number of appended rows
\* is the total of offset over all passes and at most n.
C16_AppendOnlyEqualities ==
    /\ [](pc \notin {"validate", "rejected"}
            => /\ Len(Aeq_res) = Len(beq_res)
               /\ Len(Aeq_res) >= Len(S)
               /\ SubSeq(Aeq_res, 1, Len(S)) = S
               /\ \A r \in 1..Len(S) : beq_res[r] = 0
               /\ Len(Aeq_res) - Len(S) = sums.offset
               /\ sums.offset <= n)
    /\ [][pc \notin {"validate", "build"}
            => \/ Aeq_res' = Aeq_res /\ beq_res' = beq_res
                  /\ (offset' = offset \/ offset' = 0)
               \/ AppendsOneEquality]_vars

C16_Witness ==
    /\ pc = "returned"
    /\ Len(S) = 1
    /\ Len(Aeq_res) = Len(S) + n
    /\ n = MaxN

\* the flags the step turns from false to true
Flips(f, g) == Cardinality({ i \in 1..Len(f) : ~f[i] /\ g[i] })

FlagsSet(f) == Cardinality({ i \in 1..Len(f) : f[i] })

InLoop ==
    pc \in {"while", "for", "max_base", "max_cmp", "min_base", "min_cmp", "classify"}

\* C17: both flags of every coordinate are false when the loop is entered;
\* a flag that is true stays true; a flagged side is classified redundant;
\* removed is reset at the start of a pass and otherwise grows by exactly
\* the number of flags a step turns true, so that removed summed over all
\* passes is the number of true flags and at most 2n.
C17_MonotoneFlags ==
    /\ []((pc = "while" /\ passes = 0)
             => FlagsSet(facet_left_removed) + FlagsSet(facet_right_removed) = 0)
    /\ [](pc = "classify"
             => /\ facet_right_removed[cur] => redundant_facet_right
                /\ facet_left_removed[cur] => redundant_facet_left)
    /\ [](InLoop
             => /\ sums.removed
                      = FlagsSet(facet_left_removed) + FlagsSet(facet_right_removed)
                /\ sums.removed <= 2 * n)
    /\ [][InLoop
            => /\ \A i \in 1..n :
                     /\ facet_left_removed[i] => facet_left_removed'[i]
                     /\ facet_right_removed[i] => facet_right_removed'[i]
               /\ \/ pc = "while" /\ pc' = "for" /\ removed' = 0
                     /\ UNCHANGED flags
                  \/ removed' = removed
                                + Flips(facet_left_removed, facet_left_removed')
                                + Flips(facet_right_removed, facet_right_removed')]_vars

C17_Witness ==
    /\ pc = "classify"
    /\ passes >= 2
    /\ facet_left_removed[cur]
    /\ ~facet_right_removed[cur]
    /\ ~redundant_facet_right
    /\ sums.removed >= 2

EntryOrdered ==
    /\ Len(lb_entry) = n
    /\ Len(ub_entry) = n
    /\ \A i \in 1..n : lb_entry[i] <= ub_entry[i]

\* C18: when lb[i] <= ub[i] for every coordinate on entry, lb[i] <= ub[i]
\* for every coordinate in every state of the run; a step that writes lb[i]
\* writes the negative sentinel and a step that writes ub[i] writes the
\* positive sentinel.
C18_BoundOrdering ==
    /\ [](EntryOrdered => \A i \in 1..n : lb[i] <= ub[i])
    /\ [][/\ \A i \in 1..Len(lb) : lb'[i] # lb[i] => lb'[i] = -FloatMax
          /\ \A i \in 1..Len(ub) : ub'[i] # ub[i] => ub'[i] = FloatMax]_vars

C18_Witness ==
    /\ pc = "returned"
    /\ EntryOrdered
    /\ \E i \in 1..n : lb[i] = -FloatMax /\ ub[i] = ub_entry[i]
    /\ \E i \in 1..n : lb[i] = -FloatMax /\ ub[i] = FloatMax

\* row k of A_res is the upper or the lower row of coordinate i, with the
\* bound lb or ub had on entry
RowOf(k, i) ==
    \/ A_res[k] = UnitVec(n, i) /\ b_res[k] = ub_entry[i]
    \/ A_res[k] = Neg(UnitVec(n, i)) /\ b_res[k] = -lb_entry[i]

\* C19: at the end of every pass and on return A_res and b_res have the
\* same number of rows, every row is e_i with the entry value of ub[i] or
\* -e_i with minus the entry value of lb[i] for a coordinate i of the active
\* index set the pass produced, and no row occurs twice.
C19_ReducedShape ==
    pc \in {"while", "returned"}
        => /\ Len(A_res) = Len(b_res)
           /\ \A k \in 1..Len(A_res) : \E i \in Range(indices_iter) : RowOf(k, i)
           /\ \A k1, k2 \in 1..Len(A_res) : A_res[k1] = A_res[k2] => k1 = k2

C19_Witness ==
    /\ pc = "returned"
    /\ passes >= 2
    /\ \E k \in 1..Len(A_res), i \in 1..n : A_res[k] = UnitVec(n, i)
    /\ \E k \in 1..Len(A_res), i \in 1..n : A_res[k] = Neg(UnitVec(n, i))
    /\ \E i \in 1..n : ub[i] = FloatMax

\* the base solve of the left side of the coordinate at hand, solved afresh
LeftBaseLP == ExactLP(ARow(n, cur), mlb, mub, S, c, val)

\* C20: with the exact LP engine the left side of every coordinate is
\* classified redundant in every pass, A_res never holds a lower-bound row
\* -e_i, and in the first pass every coordinate whose left base solve is
\* optimal has facet_left_removed set when it is classified.
C20_LeftAlwaysRedundant ==
    /\ pc = "classify" => redundant_facet_left
    /\ \A k \in 1..Len(A_res) : \A i \in 1..n : A_res[k] # Neg(UnitVec(n, i))
    /\ (pc = "classify" /\ passes = 1 /\ LeftBaseLP.status = "OPTIMAL")
          => facet_left_removed[cur]

C20_Witness ==
    /\ pc = "classify"
    /\ passes >= 2
    /\ exact
    /\ redundant_facet_left
    /\ ~redundant_facet_right
    /\ LeftBaseLP.status # "OPTIMAL"

====
